---- MODULE Spec2Model ----
(***************************************************************************)
(* Priors over Gaussian-process hyperparameters (smac/epm/gp_base_prior.py) *)
(* as a state machine: a caller constructs priors, evaluates their log      *)
(* probability and gradient, and draws samples from them.                   *)
(*                                                                          *)
(* Floats are fixed-point integers in units of 1/One, extended with         *)
(* +infinity, -infinity and not-a-number.  exp and log are computed from a  *)
(* table of e^k with linear interpolation, so exp(log(x)) is a computation  *)
(* and not the identity.                                                    *)
(***************************************************************************)
EXTENDS Integers, Sequences, FiniteSets, TLC

\* ------------------------------------------------------------------ bounds
\* Largest |theta| (in whole units) a caller passes to a public entry point.
MaxTheta == 2
\* Largest sample count a caller asks for.
MaxN == 2
\* Largest exponent a caller passes to SoftTopHatPrior.
MaxExponent == 3
\* Number of variates one generator hands out before the run stops sampling.
MaxDraws == 3

\* ------------------------------------------------------------------ floats
\* The fixed-point representation of 1.0.
One == 100
\* The largest magnitude of the fixed-point range: -1e25 and the quotients
\* beyond the range saturate to it.
Huge == 2000000000

Fin(v) == [t |-> "fin", v |-> v]
NaN == [t |-> "nan", v |-> 0]
PInf == [t |-> "inf", v |-> 1]
NInf == [t |-> "inf", v |-> -1]
\* A non-scalar argument (np.ndim(theta) = 1, two elements).
VecTheta == [t |-> "vec", v |-> 2]
Zero == Fin(0)

IsFinite(a) == a.t = "fin"
IsScalar(a) == a.t \in {"fin", "nan", "inf"}

\* IEEE comparison a < b: false when either side is not-a-number.
Lt(a, b) ==
  IF a.t = "nan" \/ b.t = "nan" THEN FALSE
  ELSE IF a.t = "inf" THEN a.v < 0 /\ ~(b.t = "inf" /\ b.v < 0)
  ELSE IF b.t = "inf" THEN b.v > 0
  ELSE a.v < b.v
Gt(a, b) == Lt(b, a)
\* IEEE a <= b.
Le(a, b) == a.t # "nan" /\ b.t # "nan" /\ ~Lt(b, a)
\* IEEE a == b.
Eq(a, b) == a.t # "nan" /\ b.t # "nan" /\ a = b

\* round(One * e^k) for k = -6 .. 8.
ExpTable == <<0, 1, 2, 5, 14, 37, 100, 272, 739, 2009, 5460, 14841, 40343, 109663, 298096>>
E(k) == ExpTable[k + 7]

\* np.exp on a scalar: exp(-inf) = 0, exp(+inf) = +inf, exp(nan) = nan;
\* underflows to 0 and overflows to +inf at the ends of the table.
Exp(a) ==
  IF a.t = "vec" THEN a
  ELSE IF a.t = "nan" THEN NaN
  ELSE IF a.t = "inf" THEN (IF a.v > 0 THEN PInf ELSE Zero)
  ELSE IF a.v < -6 * One THEN Zero
  ELSE IF a.v >= 8 * One THEN PInf
  ELSE LET k == a.v \div One
           f == a.v - k * One
       IN  Fin(E(k) + ((E(k + 1) - E(k)) * f) \div One)

\* log of a positive fixed-point number, the inverse interpolation of Exp.
LnPos(v) ==
  IF v >= E(8) THEN 8 * One
  ELSE LET k == CHOOSE j \in -5..7 : E(j) <= v /\ v < E(j + 1)
       IN  k * One + ((v - E(k)) * One) \div (E(k + 1) - E(k))

\* np.log on a scalar: log(0) = -inf and log(negative) = nan (warnings, no error).
NpLog(a) ==
  IF a.t = "nan" THEN NaN
  ELSE IF a.t = "inf" THEN (IF a.v > 0 THEN PInf ELSE NaN)
  ELSE IF a.v = 0 THEN NInf
  ELSE IF a.v < 0 THEN NaN
  ELSE Fin(LnPos(a.v))

\* math.log raises ValueError outside its domain.
MathErr == [t |-> "err", v |-> 0]
MathLog(a) ==
  IF a.t = "nan" THEN NaN
  ELSE IF a.t = "inf" THEN (IF a.v > 0 THEN PInf ELSE MathErr)
  ELSE IF a.v <= 0 THEN MathErr
  ELSE Fin(LnPos(a.v))

Abs(v) == IF v < 0 THEN -v ELSE v
Max(a, b) == IF a < b THEN b ELSE a
\* Fixed-point product and quotient of two finite numbers.
Mul(x, y) == (x * y) \div One
Div(x, y) == (x * One) \div y
\* x ** e for a positive integer exponent e.
RECURSIVE Pow(_, _)
Pow(x, e) == IF e = 1 THEN x ELSE Mul(Pow(x, e - 1), x)
\* --------------------------------------------------------------- results
\* What a call hands back: a value, a batch of samples, or an exception.
Ret(x) == [exc |-> "none", val |-> x, batch |-> <<>>]
RetBatch(b) == [exc |-> "none", val |-> Zero, batch |-> b]
Raise(e) == [exc |-> e, val |-> Zero, batch |-> <<>>]

\* A sample count: np.ndim(n_samples) and, for a scalar, its value.
Count(k) == [ndim |-> 0, val |-> k]
VecCount == [ndim |-> 1, val |-> 0]

\* ln(VERY_SMALL_NUMBER), VERY_SMALL_NUMBER = 1e-10 (below the resolution 1/One).
LOG_VERY_SMALL_NUMBER == -2303
\* sqrt(2 * pi) in units of 1/One.
sqrt_2_pi == 251

\* ----------------------------------------------------------- TophatPrior
\* TophatPrior.lnprob with the lower bound excluded.
TophatPrior_lnprob_strict(p, theta) ==
  IF IsScalar(theta)
  THEN IF Le(theta, Fin(p.min)) \/ Gt(theta, Fin(p.max)) THEN Ret(NInf) ELSE Ret(Zero)
  ELSE Raise("NotImplementedError")

TophatPrior_lnprob(p, theta) ==
  IF IsScalar(theta)
  THEN IF Lt(theta, Fin(p.min)) \/ Gt(theta, Fin(p.max)) THEN Ret(NInf) ELSE Ret(Zero)
  ELSE Raise("NotImplementedError")

TophatPrior_gradient(p, theta) ==
  IF IsScalar(theta) THEN Ret(Zero) ELSE Raise("NotImplementedError")

\* p0 = self.min + self.rng.rand(n_samples) * (self.max - self.min)
TophatPrior_draw(p, u) == Fin(p.min + Mul(u, p.max - p.min))

\* -------------------------------------------------------- HorseshoePrior
\* scale_square / theta ** 2 for theta # 0 (x / inf = 0), the quotient taken
\* before rounding to 1/One.
Horseshoe_ratio(p, theta) ==
  IF theta.t = "nan" THEN NaN
  ELSE IF theta.t = "inf" THEN Zero
  ELSE Fin((p.scale_square * One * One) \div (theta.v * theta.v))

\* math.log(1 + 3.0 * r)
Horseshoe_a(r) == IF IsFinite(r) THEN MathLog(Fin(One + 3 * r.v)) ELSE MathLog(r)

\* HorseshoePrior._lnprob with -infinity at theta = 0.
HorseshoePrior__lnprob_neg(p, theta) ==
  IF ~IsScalar(theta) THEN Raise("NotImplementedError")
  ELSE IF Eq(theta, Zero) THEN Ret(NInf)
  ELSE LET a == Horseshoe_a(Horseshoe_ratio(p, theta))
       IN  IF IsFinite(a)
           THEN (IF a.v = 0 THEN Ret(Fin(LOG_VERY_SMALL_NUMBER)) ELSE Ret(MathLog(a)))
           ELSE Ret(a)

HorseshoePrior__lnprob(p, theta) ==
  IF ~IsScalar(theta) THEN Raise("NotImplementedError")
  ELSE IF Eq(theta, Zero) THEN Ret(PInf)
  ELSE LET a == Horseshoe_a(Horseshoe_ratio(p, theta))
       IN  IF IsFinite(a)
           THEN (IF a.v = 0 THEN Ret(Fin(LOG_VERY_SMALL_NUMBER)) ELSE Ret(MathLog(a)))
           ELSE Ret(a)

\* b = 3 * scale_square + theta**2; b *= log(...); b = max(b, 1e-14); a / b
HorseshoePrior__gradient(p, theta) ==
  IF ~IsScalar(theta) THEN Raise("NotImplementedError")
  ELSE IF Eq(theta, Zero) THEN Ret(PInf)
  ELSE IF theta.t # "fin" THEN Ret(NaN)
  ELSE LET a == -(6 * p.scale_square)
           l == Horseshoe_a(Horseshoe_ratio(p, theta))
           b == Max(Mul(3 * p.scale_square + Mul(theta.v, theta.v), l.v), 0)
       IN  IF b = 0 THEN Ret(Fin(-Huge)) ELSE Ret(Fin(Div(a, b)))

\* p0 = np.abs(self.rng.randn() * lamda * self.scale), lamda = |cauchy draw|
HorseshoePrior_draw(p, z, c) == Fin(Abs(Mul(Mul(z, Abs(c)), p.scale)))

\* -------------------------------------------------------- LognormalPrior
LognormalPrior__lnprob(p, theta) ==
  IF ~IsScalar(theta) THEN Raise("NotImplementedError")
  ELSE IF Le(theta, Fin(p.mean)) THEN Ret(Fin(-Huge))
  ELSE IF theta.t = "nan" THEN Ret(NaN)
  ELSE IF theta.t = "inf" THEN Ret(NInf)
  ELSE LET l == LnPos(theta.v) - p.mean
           n == Mul(Mul(sqrt_2_pi, p.sigma), theta.v)
       IN  IF n <= 0 THEN Raise("ValueError")
           ELSE Ret(Fin(-Div(Mul(l, l), 2 * p.sigma_square) - LnPos(n)))

\* -(sigma_square + log(theta)) / (sigma_square * theta) * theta
LognormalPrior__gradient(p, theta) ==
  IF ~IsScalar(theta) THEN Raise("NotImplementedError")
  ELSE IF Le(theta, Zero) THEN Ret(Zero)
  ELSE IF theta.t # "fin" THEN Ret(NaN)
  ELSE LET n == -(p.sigma_square + LnPos(theta.v))
       IN  Ret(Fin(Mul((n * One * One) \div (p.sigma_square * theta.v), theta.v)))

\* self.rng.lognormal(mean, sigma) = exp(mean + sigma * z), z standard normal
LognormalPrior_draw(p, z) == Exp(Fin(p.mean + Mul(p.sigma, z)))
\* ------------------------------------------------------- SoftTopHatPrior
\* x ** exponent on a numpy scalar that may be infinite.
NumPow(x, e) ==
  IF x.t = "nan" THEN NaN
  ELSE IF x.t = "inf" THEN (IF x.v < 0 /\ e % 2 = 1 THEN NInf ELSE PInf)
  ELSE Fin(Pow(x.v, e))
Neg(x) == IF x.t = "nan" THEN NaN ELSE [t |-> x.t, v |-> -x.v]
\* x - b and b - x for a finite bound b.
SubBound(x, b) == IF x.t = "fin" THEN Fin(x.v - b) ELSE x
BoundSub(b, x) == IF x.t = "fin" THEN Fin(b - x.v) ELSE Neg(x)
\* k * x for an integer k > 0.
Times(k, x) == IF x.t = "fin" THEN Fin(k * x.v) ELSE x

SoftTopHatPrior__lnprob(p, theta) ==
  IF ~IsScalar(theta) THEN Raise("NotImplementedError")
  ELSE IF Lt(theta, Fin(p.lower_bound))
       THEN Ret(Neg(NumPow(SubBound(theta, p.lower_bound), p.exponent)))
  ELSE IF Gt(theta, Fin(p.upper_bound))
       THEN Ret(Neg(NumPow(BoundSub(p.upper_bound, theta), p.exponent)))
  ELSE Ret(Zero)

\* SoftTopHatPrior._gradient without the minus sign below the lower bound.
SoftTopHatPrior__gradient_away(p, theta) ==
  IF ~IsScalar(theta) THEN Raise("NotImplementedError")
  ELSE IF Lt(theta, Fin(p.lower_bound))
       THEN Ret(Times(p.exponent, SubBound(theta, p.lower_bound)))
  ELSE IF Gt(theta, Fin(p.upper_bound))
       THEN Ret(Times(p.exponent, BoundSub(p.upper_bound, theta)))
  ELSE Ret(Zero)

SoftTopHatPrior__gradient(p, theta) ==
  IF ~IsScalar(theta) THEN Raise("NotImplementedError")
  ELSE IF Lt(theta, Fin(p.lower_bound))
       THEN Ret(Neg(Times(p.exponent, SubBound(theta, p.lower_bound))))
  ELSE IF Gt(theta, Fin(p.upper_bound))
       THEN Ret(Times(p.exponent, BoundSub(p.upper_bound, theta)))
  ELSE Ret(Zero)

\* self.rng.uniform(lower_bound, upper_bound) = low + (high - low) * u, u in [0, 1)
SoftTopHatPrior_draw(p, u) == Fin(p.lower_bound + Mul(p.upper_bound - p.lower_bound, u))

\* ------------------------------------------------------------ GammaPrior
\* scipy.special.gammaln at the shapes used here: ln Gamma(1) = ln Gamma(2) = 0.
gammaln(a) == IF a = 3 * One THEN 69 ELSE IF a = One \div 2 THEN 57 ELSE 0

\* sps.gamma.logpdf(theta, a, scale, loc), x = (theta - loc) / scale:
\* xlogy(a - 1, x) - x - gammaln(a) - log(scale) on the support, -inf outside.
GammaPrior__lnprob(p, theta) ==
  IF ~IsScalar(theta) THEN Raise("NotImplementedError")
  ELSE IF theta.t = "nan" THEN Ret(NaN)
  ELSE IF theta.t = "inf" THEN Ret(NInf)
  ELSE LET x == Div(theta.v - p.loc, p.scale)
       IN  IF x < 0 THEN Ret(NInf)
           ELSE IF x = 0
           THEN (IF p.a < One THEN Ret(PInf)
                 ELSE IF p.a = One THEN Ret(Fin(-LnPos(p.scale)))
                 ELSE Ret(NInf))
           ELSE Ret(Fin(Mul(p.a - One, LnPos(x)) - x - gammaln(p.a) - LnPos(p.scale)))

\* ((self.a - 1) / theta - (1 / self.scale)) * theta
GammaPrior__gradient(p, theta) ==
  IF ~IsScalar(theta) THEN Raise("NotImplementedError")
  ELSE IF theta.t = "nan" \/ Eq(theta, Zero) THEN Ret(NaN)
  ELSE IF theta.t = "inf" THEN Ret(IF theta.v > 0 THEN NInf ELSE PInf)
  ELSE Ret(Fin(Mul(Div(p.a - One, theta.v) - Div(One, p.scale), theta.v)))

\* self.rng.gamma(shape, scale) = scale * g, g a standard gamma variate
GammaPrior_draw(p, g) == Fin(Mul(p.scale, g))

\* ------------------------------------------------------------------ Prior
\* The hook a variant supplies (Python's method resolution).
Hook_lnprob(p, theta) ==
  CASE p.kind = "Horseshoe" -> HorseshoePrior__lnprob(p, theta)
    [] p.kind = "Lognormal" -> LognormalPrior__lnprob(p, theta)
    [] p.kind = "SoftTopHat" -> SoftTopHatPrior__lnprob(p, theta)
    [] p.kind = "Gamma" -> GammaPrior__lnprob(p, theta)
    [] OTHER -> Raise("NotImplementedError")

Hook_gradient(p, theta) ==
  CASE p.kind = "Horseshoe" -> HorseshoePrior__gradient(p, theta)
    [] p.kind = "Lognormal" -> LognormalPrior__gradient(p, theta)
    [] p.kind = "SoftTopHat" -> SoftTopHatPrior__gradient(p, theta)
    [] p.kind = "Gamma" -> GammaPrior__gradient(p, theta)
    [] OTHER -> Raise("NotImplementedError")

\* return self._lnprob(np.exp(theta))
Prior_lnprob(p, theta) == Hook_lnprob(p, Exp(theta))
\* return self._gradient(np.exp(theta))
Prior_gradient(p, theta) == Hook_gradient(p, Exp(theta))

\* The public entry points of an instance: TophatPrior overrides them.
lnprob(p, theta) ==
  IF p.kind = "Tophat" THEN TophatPrior_lnprob(p, theta) ELSE Prior_lnprob(p, theta)
gradient(p, theta) ==
  IF p.kind = "Tophat" THEN TophatPrior_gradient(p, theta) ELSE Prior_gradient(p, theta)
\* ---------------------------------------------------------------- sampling
\* The variates a generator can hand out, per distribution, in units of 1/One:
\* rand() in [0, 1), standard normal, standard Cauchy, standard gamma.
UniformDraws == {0, 75}
NormalDraws == {-One, 0}
CauchyDraws == {-2 * One, 50}
GammaDraws == {50, 3 * One}

\* The per-element variates of one sample call.
Variates(p) ==
  CASE p.kind \in {"Tophat", "SoftTopHat"} -> UniformDraws
    [] p.kind = "Horseshoe" -> CauchyDraws
    [] p.kind = "Lognormal" -> NormalDraws
    [] p.kind = "Gamma" -> GammaDraws

\* How many variates a successful sample(n) takes from the generator:
\* HorseshoePrior adds one self.rng.randn() to its n Cauchy draws.
Consumed(p, n) == IF p.kind = "Horseshoe" THEN n + 1 ELSE n

\* The sample counts a caller passes.
Counts == {Count(k) : k \in -1..MaxN} \cup {VecCount}

\* The checks with n_samples = 0 let through.
CountError_lax(n) ==
  IF n.ndim # 0 THEN "ValueError" ELSE IF n.val < 0 THEN "ValueError" ELSE "none"

\* The checks at the head of sample_from_prior.
CountError(n) ==
  IF n.ndim # 0 THEN "ValueError" ELSE IF n.val <= 0 THEN "ValueError" ELSE "none"

\* _sample_from_prior with HorseshoePrior drawing one Cauchy variate, not n.
Hook_sample_scalar(p, n, us, z) ==
  [i \in 1..(IF p.kind = "Horseshoe" THEN 1 ELSE n) |->
     CASE p.kind = "Horseshoe" -> HorseshoePrior_draw(p, z, us[i])
       [] p.kind = "Lognormal" -> LognormalPrior_draw(p, us[i])
       [] p.kind = "SoftTopHat" -> SoftTopHatPrior_draw(p, us[i])
       [] p.kind = "Gamma" -> GammaPrior_draw(p, us[i])]

\* _sample_from_prior of the variant: us are the n per-element variates, z the
\* one normal variate HorseshoePrior multiplies them by.
Hook_sample(p, n, us, z) ==
  [i \in 1..n |->
     CASE p.kind = "Horseshoe" -> HorseshoePrior_draw(p, z, us[i])
       [] p.kind = "Lognormal" -> LognormalPrior_draw(p, us[i])
       [] p.kind = "SoftTopHat" -> SoftTopHatPrior_draw(p, us[i])
       [] p.kind = "Gamma" -> GammaPrior_draw(p, us[i])]

\* return np.log(self._sample_from_prior(n_samples=n_samples))
Prior_sample_from_prior(p, n, us, z) ==
  IF CountError(n) # "none" THEN Raise(CountError(n))
  ELSE LET p0 == Hook_sample(p, n.val, us, z)
       IN  RetBatch([i \in DOMAIN p0 |-> NpLog(p0[i])])

TophatPrior_sample_from_prior(p, n, us) ==
  IF CountError(n) # "none" THEN Raise(CountError(n))
  ELSE RetBatch([i \in 1..n.val |-> TophatPrior_draw(p, us[i])])

sample_from_prior(p, n, us, z) ==
  IF p.kind = "Tophat" THEN TophatPrior_sample_from_prior(p, n, us)
  ELSE Prior_sample_from_prior(p, n, us, z)

\* ------------------------------------------------------------ construction
NoPrior == [kind |-> "none"]
\* A constructor that raised.
Failed(e) == [kind |-> "failed", exc |-> e]

\* TophatPrior.__init__ accepting upper_bound = lower_bound.
TophatPrior_init_lax(lower_bound, upper_bound, rng) ==
  IF upper_bound < lower_bound THEN Failed("Exception")
  ELSE [kind |-> "Tophat", min |-> lower_bound, max |-> upper_bound, rng |-> rng]

TophatPrior_init(lower_bound, upper_bound, rng) ==
  IF ~(upper_bound > lower_bound) THEN Failed("Exception")
  ELSE [kind |-> "Tophat", min |-> lower_bound, max |-> upper_bound, rng |-> rng]

HorseshoePrior_init(scale, rng) ==
  [kind |-> "Horseshoe", scale |-> scale, scale_square |-> Mul(scale, scale), rng |-> rng]

LognormalPrior_init(sigma, mean, rng) ==
  IF mean # 0 THEN Failed("NotImplementedError")
  ELSE [kind |-> "Lognormal", sigma |-> sigma, sigma_square |-> Mul(sigma, sigma),
        mean |-> mean, rng |-> rng]

\* exponent is a whole number here (1, 2, 3, ...), not in units of 1/One.
SoftTopHatPrior_init(lower_bound, upper_bound, exponent, rng) ==
  IF exponent <= 0 THEN Failed("ValueError")
  ELSE [kind |-> "SoftTopHat", lower_bound |-> lower_bound, upper_bound |-> upper_bound,
        exponent |-> exponent, rng |-> rng]

GammaPrior_init(a, scale, loc, rng) ==
  [kind |-> "Gamma", a |-> a, loc |-> loc, scale |-> scale, rng |-> rng]

\* ------------------------------------------------------------------- state
VARIABLES
  priors,  \* slot -> the prior constructed there, or NoPrior
  gens,    \* generator instance -> how many variates it has handed out
  last     \* the last call and what it handed back

vars == <<priors, gens, last>>

Slots == DOMAIN priors
\* The generator instance the caller holds and may pass to constructors.
CallerGen == 0
\* rng argument of a constructor: None, or the caller's generator.
RngArgs == {"None", "given"}

Live(i) == priors[i].kind # "none"
HasFree == \E i \in Slots : ~Live(i)
FreeSlot == CHOOSE i \in Slots : ~Live(i) /\ \A j \in Slots : j < i => Live(j)

NoArgs == <<0, 0, 0>>
Call(op, slot, args, theta, n, r) ==
  [op |-> op, slot |-> slot, args |-> args, theta |-> theta, n |-> n,
   exc |-> r.exc, val |-> r.val, batch |-> r.batch]

\* One default generator instance for every prior built without one.
RngOf_shared(slot, rngArg) == IF rngArg = "given" THEN CallerGen ELSE CallerGen - 1

\* The generator a constructor ends up holding: the one passed in, or a new
\* RandomState instance (named after the slot) seeded from np.random.
RngOf(slot, rngArg) == IF rngArg = "given" THEN CallerGen ELSE slot

\* A constructor call: inst is the instance or Failed(e).
Construct(inst, cls, args) ==
  /\ HasFree
  /\ IF inst.kind = "failed"
     THEN /\ last' = Call(cls, FreeSlot, args, Zero, Count(0), Raise(inst.exc))
          /\ UNCHANGED <<priors, gens>>
     ELSE /\ priors' = [priors EXCEPT ![FreeSlot] = inst]
          /\ gens' = IF inst.rng \in DOMAIN gens THEN gens ELSE (inst.rng :> 0) @@ gens
          /\ last' = Call(cls, FreeSlot, args, Zero, Count(0), Ret(Zero))

\* ----------------------------------------------------------------- actions
NewTophat(Args) ==
  \E b \in Args, r \in RngArgs :
    Construct(TophatPrior_init(b[1], b[2], RngOf(FreeSlot, r)),
              "TophatPrior", <<b[1], b[2], 0>>)

NewHorseshoe(Scales) ==
  \E sc \in Scales, r \in RngArgs :
    Construct(HorseshoePrior_init(sc, RngOf(FreeSlot, r)),
              "HorseshoePrior", <<sc, 0, 0>>)

NewLognormal(Args) ==
  \E a \in Args, r \in RngArgs :
    Construct(LognormalPrior_init(a[1], a[2], RngOf(FreeSlot, r)),
              "LognormalPrior", <<a[1], a[2], 0>>)

NewSoftTopHat(Bounds, Exps) ==
  \E b \in Bounds, e \in Exps, r \in RngArgs :
    Construct(SoftTopHatPrior_init(b[1], b[2], e, RngOf(FreeSlot, r)),
              "SoftTopHatPrior", <<b[1], b[2], e>>)

NewGamma(Args) ==
  \E a \in Args, r \in RngArgs :
    Construct(GammaPrior_init(a[1], a[2], a[3], RngOf(FreeSlot, r)),
              "GammaPrior", a)

\* prior.lnprob(theta)
LnProb(Ts) ==
  \E i \in Slots, theta \in Ts :
    /\ Live(i)
    /\ last' = Call("lnprob", i, NoArgs, theta, Count(0), lnprob(priors[i], theta))
    /\ UNCHANGED <<priors, gens>>

\* prior.gradient(theta)
Gradient(Ts) ==
  \E i \in Slots, theta \in Ts :
    /\ Live(i)
    /\ last' = Call("gradient", i, NoArgs, theta, Count(0), gradient(priors[i], theta))
    /\ UNCHANGED <<priors, gens>>

\* prior._lnprob(theta), the linear-space hook called directly
HookLnProb(Ts) ==
  \E i \in Slots, theta \in Ts :
    /\ Live(i)
    /\ last' = Call("_lnprob", i, NoArgs, theta, Count(0), Hook_lnprob(priors[i], theta))
    /\ UNCHANGED <<priors, gens>>

\* prior._gradient(theta), the linear-space hook called directly
HookGradient(Ts) ==
  \E i \in Slots, theta \in Ts :
    /\ Live(i)
    /\ last' = Call("_gradient", i, NoArgs, theta, Count(0), Hook_gradient(priors[i], theta))
    /\ UNCHANGED <<priors, gens>>

\* prior.sample_from_prior(n) that fails its checks: nothing is drawn.
SampleRejected ==
  \E i \in Slots, n \in Counts :
    /\ Live(i)
    /\ CountError(n) # "none"
    /\ last' = Call("sample", i, NoArgs, Zero, n,
                    sample_from_prior(priors[i], n, <<>>, 0))
    /\ UNCHANGED <<priors, gens>>

\* prior.sample_from_prior(n) that draws from the prior's generator.
Sample ==
  \E i \in Slots, n \in Counts :
    /\ Live(i)
    /\ CountError(n) = "none"
    /\ LET p == priors[i]
           g == p.rng
       IN  /\ gens[g] + Consumed(p, n.val) <= MaxDraws
           /\ \E us \in [1..n.val -> Variates(p)], z \in NormalDraws :
                last' = Call("sample", i, NoArgs, Zero, n, sample_from_prior(p, n, us, z))
           /\ gens' = [gens EXCEPT ![g] = @ + Consumed(p, n.val)]
    /\ UNCHANGED priors

\* --------------------------------------------------- the caller with priors
\* A caller that constructs two priors (the statements about several priors
\* are about pairs of them), each with the default parameters or an invalid
\* set, and uses them in any order.
PriorSlots == {1, 2}
TophatArgs == {<<-One, One>>, <<One, One>>}
HorseshoeScales == {One \div 10}
LognormalArgs == {<<One, 0>>, <<One, One>>}
SoftTopHatBounds == {<<-10 * One, 10 * One>>}
Exponents == {0, 2}
GammaArgs == {<<2 * One, One, 0>>}
Thetas == {Zero, VecTheta}
HookThetas == {Zero}

Init ==
  /\ priors = [i \in PriorSlots |-> NoPrior]
  /\ gens = (CallerGen :> 0)
  /\ last = Call("start", 0, NoArgs, Zero, Count(0), Ret(Zero))

Next ==
  \/ NewTophat(TophatArgs)
  \/ NewHorseshoe(HorseshoeScales)
  \/ NewLognormal(LognormalArgs)
  \/ NewSoftTopHat(SoftTopHatBounds, Exponents)
  \/ NewGamma(GammaArgs)
  \/ LnProb(Thetas)
  \/ Gradient(Thetas)
  \/ HookLnProb(HookThetas)
  \/ HookGradient(HookThetas)
  \/ SampleRejected
  \/ Sample

Spec == Init /\ [][Next]_vars

\* ------------------------------------------- one prior, evaluated in depth
\* A caller that constructs one prior from the wider parameter sets below and
\* evaluates it over a grid of arguments.
EvalSlots == {1}
EvalTophatArgs == {<<0, One>>, <<-One, 2 * One>>, <<One, 0>>}
EvalHorseshoeScales == {One \div 10, One}
EvalLognormalArgs == {<<One \div 2, 0>>, <<One, 0>>}
\* (-10, 10) are the defaults of SoftTopHatPrior.
EvalSoftTopHatBounds == {<<-10 * One, 10 * One>>, <<-One, 2 * One>>}
EvalExponents == 1..MaxExponent
EvalGammaArgs == {<<One, One, 0>>, <<2 * One, One, 0>>}
\* Arguments of the public entry points (log space for the wrapped variants).
EvalThetas == {Fin(k * One) : k \in -MaxTheta..MaxTheta} \cup {NInf, PInf, VecTheta}
\* Arguments of direct calls of the linear-space hooks.
EvalHookThetas == {Fin(k * One) : k \in {-12, -11, -2, 0, 1, 3, 11, 12}}

InitEval ==
  /\ priors = [i \in EvalSlots |-> NoPrior]
  /\ gens = (CallerGen :> 0)
  /\ last = Call("start", 0, NoArgs, Zero, Count(0), Ret(Zero))

NextEval ==
  \/ NewTophat(EvalTophatArgs)
  \/ NewHorseshoe(EvalHorseshoeScales)
  \/ NewLognormal(EvalLognormalArgs)
  \/ NewSoftTopHat(EvalSoftTopHatBounds, EvalExponents)
  \/ NewGamma(EvalGammaArgs)
  \/ LnProb(EvalThetas)
  \/ Gradient(EvalThetas)
  \/ HookLnProb(EvalHookThetas)
  \/ HookGradient(EvalHookThetas)
  \/ SampleRejected
  \/ Sample

SpecEval == InitEval /\ [][NextEval]_vars
\* ------------------------------------------------------------------ claims
\* The prior the last call was made on.
LastPrior == priors[last.slot]
OnPrior(op, kind) == last.op = op /\ last.slot \in Slots /\ LastPrior.kind = kind
BadCount(n) == n.ndim # 0 \/ n.val <= 0

\* C1: a sample call whose count is non-scalar or not positive raises a
\* ValueError, hands back no batch and leaves every generator, the one of the
\* prior it was made on included, and every prior as they were.
C1_RejectedSampleDrawsNothing ==
  [][(last'.op = "sample" /\ BadCount(last'.n))
       => /\ last'.exc = "ValueError"
          /\ last'.batch = <<>>
          /\ gens' = gens
          /\ priors' = priors]_vars

\* A rejected sample call on a prior whose generator has already been drawn from.
C1_Witness ==
  /\ last.op = "sample"
  /\ BadCount(last.n)
  /\ last.exc = "ValueError"
  /\ gens[LastPrior.rng] > 0

\* C2: every value handed back by a successful sample call has a finite log
\* probability under the same prior, and evaluating it raises nothing.
C2_SampledValuesInSupport ==
  (last.op = "sample" /\ last.exc = "none")
    => \A i \in DOMAIN last.batch :
         LET r == lnprob(LastPrior, last.batch[i])
         IN  r.exc = "none" /\ IsFinite(r.val)

\* C3: SoftTopHatPrior's public lnprob and gradient are its hooks evaluated at
\* theta itself, so both are 0 for lower_bound <= theta <= upper_bound, and its
\* public sample hands back the uniform draws themselves, which lie in the bounds.
C3_SoftTopHatLinearNative ==
  /\ (OnPrior("lnprob", "SoftTopHat") /\ IsScalar(last.theta))
       => /\ last.val = SoftTopHatPrior__lnprob(LastPrior, last.theta).val
          /\ (Le(Fin(LastPrior.lower_bound), last.theta)
              /\ Le(last.theta, Fin(LastPrior.upper_bound))) => last.val = Zero
  /\ (OnPrior("gradient", "SoftTopHat") /\ IsScalar(last.theta))
       => /\ last.val = SoftTopHatPrior__gradient(LastPrior, last.theta).val
          /\ (Le(Fin(LastPrior.lower_bound), last.theta)
              /\ Le(last.theta, Fin(LastPrior.upper_bound))) => last.val = Zero
  /\ (OnPrior("sample", "SoftTopHat") /\ last.exc = "none")
       => \A i \in DOMAIN last.batch :
            /\ Le(Fin(LastPrior.lower_bound), last.batch[i])
            /\ Le(last.batch[i], Fin(LastPrior.upper_bound))

\* C4: TophatPrior.lnprob of a scalar theta is 0 exactly when
\* min <= theta <= max (theta itself, not exp(theta)) and -infinity otherwise;
\* TophatPrior.gradient of a scalar theta is 0.
C4_TophatLnprob ==
  /\ (OnPrior("lnprob", "Tophat") /\ IsScalar(last.theta))
       => /\ last.exc = "none"
          /\ last.val = Zero
               <=> (Le(Fin(LastPrior.min), last.theta) /\ Le(last.theta, Fin(LastPrior.max)))
          /\ (Lt(last.theta, Fin(LastPrior.min)) \/ Gt(last.theta, Fin(LastPrior.max)))
               => last.val = NInf
  /\ (OnPrior("gradient", "Tophat") /\ IsScalar(last.theta))
       => last.exc = "none" /\ last.val = Zero

\* lnprob at a bound of a TophatPrior, which is inside.
C4_Witness ==
  /\ OnPrior("lnprob", "Tophat")
  /\ last.theta = Fin(LastPrior.max)
  /\ last.val = Zero

\* The parameters a constructor must refuse.
InvalidArgs(cls, args) ==
  \/ cls = "TophatPrior" /\ args[2] <= args[1]
  \/ cls = "SoftTopHatPrior" /\ args[3] <= 0
  \/ cls = "LognormalPrior" /\ args[2] # 0

ValidPrior(p) ==
  /\ p.kind = "Tophat" => p.min < p.max
  /\ p.kind = "SoftTopHat" => p.exponent > 0
  /\ p.kind = "Lognormal" => p.mean = 0

\* C5: a constructor given invalid parameters raises and leaves its slot empty;
\* every live prior has valid parameters; no call changes a live prior.
C5_ValidatedAtConstruction ==
  /\ [](/\ InvalidArgs(last.op, last.args) => (last.exc # "none" /\ ~Live(last.slot))
        /\ \A i \in Slots : Live(i) => ValidPrior(priors[i]))
  /\ [][\A i \in Slots : Live(i) => priors'[i] = priors[i]]_vars

\* A refused construction while an earlier prior is alive and has been sampled.
C5_Witness ==
  /\ InvalidArgs(last.op, last.args)
  /\ last.exc # "none"
  /\ \E i \in Slots : Live(i) /\ gens[priors[i].rng] > 0

\* C6: a successful sample call with count n hands back exactly n values.
C6_SampleLength ==
  (last.op = "sample" /\ last.exc = "none")
    => last.n.val > 0 /\ DOMAIN last.batch = 1..last.n.val

\* HorseshoePrior handing back two values for n = 2.
C6_Witness ==
  /\ OnPrior("sample", "Horseshoe")
  /\ last.exc = "none"
  /\ last.n = Count(2)
  /\ DOMAIN last.batch = 1..2

\* C7 as written: HorseshoePrior's public lnprob(0) and gradient(0) are +infinity.
C7_PublicSpikeAtZero ==
  ((OnPrior("lnprob", "Horseshoe") \/ OnPrior("gradient", "Horseshoe"))
     /\ last.theta = Zero)
    => last.exc = "none" /\ last.val = PInf

\* C7, amended: the hooks _lnprob(0) and _gradient(0) of HorseshoePrior are
\* +infinity; the public lnprob(0) and gradient(0) evaluate the hooks at
\* exp(0) = 1 and are finite; none of the four calls raises.
C7_HookSpikeAtZero ==
  /\ ((OnPrior("_lnprob", "Horseshoe") \/ OnPrior("_gradient", "Horseshoe"))
        /\ last.theta = Zero)
       => last.exc = "none" /\ last.val = PInf
  /\ ((OnPrior("lnprob", "Horseshoe") \/ OnPrior("gradient", "Horseshoe"))
        /\ last.theta = Zero)
       => last.exc = "none" /\ IsFinite(last.val)

\* The hook _lnprob called at 0 on a HorseshoePrior.
C7_Witness ==
  /\ OnPrior("_lnprob", "Horseshoe")
  /\ last.theta = Zero
  /\ last.val = PInf

\* C8: lnprob, gradient and their hooks change no generator and no prior; a
\* generator changes only in a successful sample call on a prior holding it,
\* so a sample on one prior changes another prior's generator only if both
\* hold the caller's generator; priors built without one hold distinct ones.
C8_GeneratorFrame ==
  /\ [](\A i, j \in Slots :
          (Live(i) /\ Live(j) /\ i # j /\ priors[i].rng = priors[j].rng)
            => priors[i].rng = CallerGen)
  /\ [][/\ last'.op \in {"lnprob", "gradient", "_lnprob", "_gradient"}
             => (gens' = gens /\ priors' = priors)
        /\ \A g \in DOMAIN gens :
             gens'[g] # gens[g]
               => /\ last'.op = "sample"
                  /\ last'.exc = "none"
                  /\ priors[last'.slot].rng = g
        /\ \A j \in Slots :
             (Live(j) /\ j # last'.slot /\ gens'[priors[j].rng] # gens[priors[j].rng])
               => /\ priors[j].rng = priors[last'.slot].rng
                  /\ priors[j].rng = CallerGen]_vars

\* Two priors built without a generator, each of which has sampled from its own.
C8_Witness ==
  /\ \A i \in PriorSlots : Live(i) /\ priors[i].rng # CallerGen /\ gens[priors[i].rng] > 0
  /\ priors[1].rng # priors[2].rng
  /\ gens[CallerGen] = 0
  /\ last.op = "sample"

\* C9: SoftTopHatPrior._lnprob of a scalar theta is 0 inside the bounds and
\* strictly negative outside them, growing in magnitude with the distance to
\* the nearest bound, for every exponent > 0.
C9_SoftTopHatPenaltyNegative ==
  (OnPrior("_lnprob", "SoftTopHat") /\ IsFinite(last.theta))
    => LET p == LastPrior
           t == last.theta.v
           f(x) == SoftTopHatPrior__lnprob(p, Fin(x)).val
       IN  /\ last.exc = "none"
           /\ (p.lower_bound <= t /\ t <= p.upper_bound) => last.val = Zero
           /\ (t < p.lower_bound \/ t > p.upper_bound) => Lt(last.val, Zero)
           /\ t < p.lower_bound => Lt(f(t - One), last.val)
           /\ t > p.upper_bound => Lt(f(t + One), last.val)

\* C10: SoftTopHatPrior._gradient of a scalar theta is 0 inside the bounds,
\* exponent * (lower_bound - theta) > 0 below them and
\* -exponent * (theta - upper_bound) < 0 above them.
C10_SoftTopHatGradient ==
  (OnPrior("_gradient", "SoftTopHat") /\ IsFinite(last.theta))
    => LET p == LastPrior
           t == last.theta.v
       IN  /\ last.exc = "none"
           /\ (p.lower_bound <= t /\ t <= p.upper_bound) => last.val = Zero
           /\ t < p.lower_bound
                => /\ last.val = Fin(p.exponent * (p.lower_bound - t))
                   /\ last.val.v > 0
           /\ t > p.upper_bound
                => /\ last.val = Fin(-(p.exponent * (t - p.upper_bound)))
                   /\ last.val.v < 0

\* _gradient below the lower bound of a SoftTopHatPrior with an odd exponent.
C10_Witness ==
  /\ OnPrior("_gradient", "SoftTopHat")
  /\ IsFinite(last.theta)
  /\ last.theta.v < LastPrior.lower_bound
  /\ LastPrior.exponent = 3
  /\ last.val.v > 0
====
